---- MODULE Spec2Model ----
(***************************************************************************)
(* A model of the shapes library (src/unnamed/part_001): the primitive     *)
(* checkers, the shape builders and the checkFn closures they return,      *)
(* evaluated over a tagged representation of JavaScript values.            *)
(*                                                                         *)
(* A JavaScript value is a record with a tag t:                            *)
(*   undefined, null, string, number, boolean, function, array, object,    *)
(*   "Object.prototype" (the prototype every plain object inherits from).  *)
(* An array is a sequence of slots; a slot is a value or Hole (an index    *)
(* that was never assigned).  A plain object is a sequence of own          *)
(* enumerable entries [key, val] in insertion order.                       *)
(* A shape is the record a builder returns; its checkFn field names the    *)
(* closure the builder allocated.                                          *)
(***************************************************************************)
EXTENDS Integers, Sequences, FiniteSets

\* ------------------------------------------------------------------ bounds
\* Longest array, and most own entries of an object, among the inputs.
MaxLen == 2
\* Most declared properties of a property map handed to object().
MaxProps == 2

\* ------------------------------------------------------- JavaScript values
Undefined == [t |-> "undefined"]
Null == [t |-> "null"]
Str == [t |-> "string", text |-> <<"x">>]
Num == [t |-> "number", text |-> <<"42">>]
NaN == [t |-> "number", text |-> <<"NaN">>]
Infinity == [t |-> "number", text |-> <<"Infinity">>]
Bool == [t |-> "boolean", text |-> <<"true">>]
\* Object.prototype.toString / valueOf / constructor: what a plain object
\* yields for a name it inherits.
Fn == [t |-> "function", text |-> <<"function () { [native code] }">>]
Hole == [t |-> "hole"]
ObjectPrototype == [t |-> "Object.prototype"]
Arr(slots) == [t |-> "array", slots |-> slots]
Obj(ents) == [t |-> "object", ents |-> ents]
Entry(k, v) == [key |-> k, val |-> v]

\* Property names every plain object inherits from Object.prototype.
ObjectPrototypeNames == {"toString", "valueOf", "constructor", "__proto__"}

\* Keys that are canonical array indices: for-in lists them first, ascending.
IntegerKeys == {"1", "2"}
IntegerValue(k) == IF k = "1" THEN 1 ELSE 2

Range(s) == {s[i] : i \in 1..Len(s)}
Keys(ents) == {ents[i].key : i \in 1..Len(ents)}
Lookup(ents, k) == (CHOOSE i \in 1..Len(ents) : ents[i].key = k)

\* typeof v
TypeOf(v) ==
  CASE v.t = "undefined" -> "undefined"
    [] v.t = "string" -> "string"
    [] v.t = "number" -> "number"
    [] v.t = "boolean" -> "boolean"
    [] v.t = "function" -> "function"
    [] OTHER -> "object"

\* k in o, for o a plain object given by its own entries: own or inherited.
HasProperty(ents, k) == k \in Keys(ents) \/ k \in ObjectPrototypeNames

\* k in v, for any value the code applies `in` to (it has passed isObject).
In(k, v) ==
  IF v.t = "object" THEN HasProperty(v.ents, k) ELSE k \in ObjectPrototypeNames

\* v[k]: the own entry, else what the prototype chain yields.
Get(v, k) ==
  IF v.t = "object" /\ k \in Keys(v.ents) THEN v.ents[Lookup(v.ents, k)].val
  ELSE IF k = "__proto__" THEN (IF v.t = "object" THEN ObjectPrototype ELSE Null)
  ELSE IF k \in ObjectPrototypeNames THEN Fn
  ELSE Undefined

\* The order in which for-in visits own enumerable keys: integer keys in
\* ascending numeric order, then the other keys in insertion order.
RECURSIVE SortedIntegerKeys(_)
SortedIntegerKeys(ks) ==
  IF ks = {} THEN <<>>
  ELSE LET m == CHOOSE k \in ks : \A j \in ks : IntegerValue(k) <= IntegerValue(j)
       IN <<m>> \o SortedIntegerKeys(ks \ {m})

\* Own keys in insertion order, integer keys not moved to the front.
ForInInsertionOrder(ents) == [i \in 1..Len(ents) |-> ents[i].key]

ForIn(ents) ==
  LET all == [i \in 1..Len(ents) |-> ents[i].key]
      IsStr(k) == k \notin IntegerKeys
  IN SortedIntegerKeys(Keys(ents) \cap IntegerKeys) \o SelectSeq(all, IsStr)

\* for (const k in v): Object.prototype has no enumerable property.
ForInValue(v) == IF v.t = "object" THEN ForIn(v.ents) ELSE <<>>

\* `${v}`: ToString(v).  ok is FALSE where the conversion throws a TypeError:
\* an object whose toString is not callable falls back to valueOf, which
\* (inherited) returns the object itself, not a primitive.
RECURSIVE ToString(_)
JoinSlots(slots) ==
  LET part(i) == IF slots[i].t \in {"hole", "undefined", "null"}
                 THEN [ok |-> TRUE, text |-> <<>>]
                 ELSE ToString(slots[i])
      RECURSIVE from(_)
      from(i) == IF i > Len(slots) THEN <<>>
                 ELSE (IF i > 1 THEN <<",">> ELSE <<>>) \o part(i).text \o from(i + 1)
  IN [ok |-> \A i \in 1..Len(slots) : part(i).ok, text |-> from(1)]

ToString(v) ==
  CASE v.t = "undefined" -> [ok |-> TRUE, text |-> <<"undefined">>]
    [] v.t = "null" -> [ok |-> TRUE, text |-> <<"null">>]
    [] v.t = "array" -> JoinSlots(v.slots)
    [] v.t = "object" ->
         IF Get(v, "toString").t = "function"
         THEN [ok |-> TRUE, text |-> <<"[object Object]">>]
         ELSE [ok |-> FALSE, text |-> <<>>]
    [] v.t = "Object.prototype" -> [ok |-> TRUE, text |-> <<"[object Object]">>]
    [] OTHER -> [ok |-> TRUE, text |-> v.text]

\* ------------------------------------------------------ primitive checkers
isString(input) == TypeOf(input) = "string"

\* isNumber without the finiteness test (typeof input === "number").
isNumberTypeof(input) == TypeOf(input) = "number"

isNumber(input) == TypeOf(input) = "number" /\ input.text \notin {<<"NaN">>, <<"Infinity">>}

isArray(input) == input.t = "array"

isObject(input) == input.t # "null" /\ TypeOf(input) = "object" /\ ~isArray(input)

isNull(input) == input.t = "null"

isBoolean(input) == TypeOf(input) = "boolean"

isUndefined(input) == input.t = "undefined"

\* ------------------------------------------------------------------ shapes
\* A shape's optional field exists only on what optional() returns; reading
\* it elsewhere yields undefined, which is falsy.
Truthy(shape, field) == field \in DOMAIN shape /\ shape[field] = TRUE

\* What a check leaves behind: r is "true", "false" or "throw" (an exception
\* left the call); out lists, in order, what it did: the console.warn lines
\* and the invocations by an array or object shape of a nested checkFn.
\* d is the nesting depth of the shape that acted.
Result(r, out) == [r |-> r, out |-> out]
Warn(d, typename, what) == [e |-> "warn", d |-> d, by |-> typename, what |-> what]
WarnElement(d, typename, entry, expected) ==
  [e |-> "warn", d |-> d, by |-> typename, what |-> "element",
   value |-> ToString(entry).text, type |-> TypeOf(entry), expected |-> expected]
WarnUnknown(d, typename, inputProperty) ==
  [e |-> "warn", d |-> d, by |-> typename, what |-> "unknown property",
   property |-> inputProperty]
WarnMissing(d, typename, property, expected) ==
  [e |-> "warn", d |-> d, by |-> typename, what |-> "missing property",
   property |-> property, expected |-> expected]
WarnProperty(d, typename, property, field, expected) ==
  [e |-> "warn", d |-> d, by |-> typename, what |-> "property",
   property |-> property, value |-> ToString(field).text, type |-> TypeOf(field),
   expected |-> expected]
CallElement(d, typename, i) == [e |-> "call", d |-> d, by |-> typename, index |-> i]
CallProperty(d, typename, property) ==
  [e |-> "call", d |-> d, by |-> typename, property |-> property]

RECURSIVE checkFn(_, _, _)

\* optional(shape).checkFn taking null for absent as well.
optionalCheckFnNullish(shape, input, d) ==
  IF isUndefined(input) \/ isNull(input) THEN Result("true", <<>>)
  ELSE checkFn(shape, input, d)

\* optional(shape).checkFn
optionalCheckFn(shape, input, d) ==
  IF isUndefined(input) THEN Result("true", <<>>) ELSE checkFn(shape, input, d)

\* nullable(shape).checkFn taking undefined for null as well.
nullableCheckFnNullish(shape, input, d) ==
  IF isNull(input) \/ isUndefined(input) THEN Result("true", <<>>)
  ELSE checkFn(shape, input, d)

\* nullable(shape).checkFn
nullableCheckFn(shape, input, d) ==
  IF isNull(input) THEN Result("true", <<>>) ELSE checkFn(shape, input, d)

\* A loop over all the slots that does not stop at the first failure.
RECURSIVE everyAll(_, _, _, _, _)
everyAll(typename, shape, slots, i, d) ==
  IF i > Len(slots) THEN Result("true", <<>>)
  ELSE IF slots[i] = Hole THEN everyAll(typename, shape, slots, i + 1, d)
  ELSE LET entry == slots[i]
           call == CallElement(d, typename, i)
           res == checkFn(shape, entry, d + 1)
           rest == everyAll(typename, shape, slots, i + 1, d)
       IN IF res.r = "throw" THEN Result("throw", <<call>> \o res.out)
          ELSE IF res.r = "false"
          THEN IF ToString(entry).ok
               THEN Result(IF rest.r = "throw" THEN "throw" ELSE "false",
                           <<call>> \o res.out
                             \o <<WarnElement(d, typename, entry, shape.typename)>>
                             \o rest.out)
               ELSE Result("throw", <<call>> \o res.out)
          ELSE Result(rest.r, <<call>> \o res.out \o rest.out)

\* input.every(callback) from slot i on: every skips holes and stops at the
\* first slot for which the callback returns false.
RECURSIVE every(_, _, _, _, _)
every(typename, shape, slots, i, d) ==
  IF i > Len(slots) THEN Result("true", <<>>)
  ELSE IF slots[i] = Hole THEN every(typename, shape, slots, i + 1, d)
  ELSE LET entry == slots[i]
           call == CallElement(d, typename, i)
           res == checkFn(shape, entry, d + 1)
       IN IF res.r = "throw" THEN Result("throw", <<call>> \o res.out)
          ELSE IF res.r = "false"
          THEN IF ToString(entry).ok
               THEN Result("false", <<call>> \o res.out
                             \o <<WarnElement(d, typename, entry, shape.typename)>>)
               ELSE Result("throw", <<call>> \o res.out)
          ELSE LET rest == every(typename, shape, slots, i + 1, d)
               IN Result(rest.r, <<call>> \o res.out \o rest.out)

\* array(shape).checkFn
arrayCheckFn(typename, shape, input, d) ==
  IF ~isArray(input) THEN Result("false", <<Warn(d, typename, "not an array")>>)
  ELSE every(typename, shape, input.slots, 1, d)

\* The first loop of object(...).checkFn over the keys of the input, from the
\* i-th in for-in order: the first one not `in` properties fails the check.
RECURSIVE unknownProperty(_, _, _, _, _)
unknownProperty(typename, properties, keys, i, d) ==
  IF i > Len(keys) THEN Result("true", <<>>)
  ELSE IF ~HasProperty(properties, keys[i])
  THEN Result("false", <<WarnUnknown(d, typename, keys[i])>>)
  ELSE unknownProperty(typename, properties, keys, i + 1, d)

\* The second loop of object(...).checkFn over the declared properties, from
\* the i-th in for-in order.
RECURSIVE registeredProperties(_, _, _, _, _, _)
registeredProperties(typename, properties, input, order, i, d) ==
  IF i > Len(order) THEN Result("true", <<>>)
  ELSE LET property == order[i]
           propShape == properties[Lookup(properties, property)].val
           field == Get(input, property)
           call == CallProperty(d, typename, property)
       IN IF ~In(property, input) /\ ~Truthy(propShape, "optional")
          THEN Result("false",
                      <<WarnMissing(d, typename, property, propShape.typename)>>)
          ELSE LET res == checkFn(propShape, field, d + 1)
               IN IF res.r = "throw" THEN Result("throw", <<call>> \o res.out)
                  ELSE IF res.r = "false"
                  THEN IF ToString(field).ok
                       THEN Result("false", <<call>> \o res.out
                              \o <<WarnProperty(d, typename, property, field,
                                                propShape.typename)>>)
                       ELSE Result("throw", <<call>> \o res.out)
                  ELSE LET rest == registeredProperties(typename, properties, input,
                                                        order, i + 1, d)
                       IN Result(rest.r, <<call>> \o res.out \o rest.out)

\* object(...).checkFn
objectCheckFn(typename, properties, input, d) ==
  IF ~isObject(input) THEN Result("false", <<Warn(d, typename, "not an object")>>)
  ELSE LET unknown == unknownProperty(typename, properties, ForInValue(input), 1, d)
       IN IF unknown.r = "false" THEN unknown
          ELSE registeredProperties(typename, properties, input, ForIn(properties), 1, d)

\* shape.checkFn(input): the closure the shape's builder stored.
checkFn(shape, input, d) ==
  CASE shape.checkFn = "isString" -> Result(IF isString(input) THEN "true" ELSE "false", <<>>)
    [] shape.checkFn = "isNumber" -> Result(IF isNumber(input) THEN "true" ELSE "false", <<>>)
    [] shape.checkFn = "isBoolean" -> Result(IF isBoolean(input) THEN "true" ELSE "false", <<>>)
    [] shape.checkFn = "optional" -> optionalCheckFn(shape.inner, input, d)
    [] shape.checkFn = "nullable" -> nullableCheckFn(shape.inner, input, d)
    [] shape.checkFn = "array" -> arrayCheckFn(shape.typename, shape.members, input, d)
    [] shape.checkFn = "object" -> objectCheckFn(shape.typename, shape.properties, input, d)

\* ---------------------------------------------------------------- builders
optional(shape) ==
  [typename |-> shape.typename \o <<" | undefined">>, checkFn |-> "optional",
   inner |-> shape, optional |-> TRUE]

nullable(shape) ==
  [typename |-> shape.typename \o <<" | null">>, checkFn |-> "nullable", inner |-> shape]

number == [typename |-> <<"number">>, checkFn |-> "isNumber"]

string == [typename |-> <<"string">>, checkFn |-> "isString"]

boolean == [typename |-> <<"boolean">>, checkFn |-> "isBoolean"]

array(shape) ==
  [typename |-> <<"Array<">> \o shape.typename \o <<">">>, members |-> shape,
   checkFn |-> "array"]

\* object(nameOrProps, maybeProperties): a name is a JavaScript string, a
\* property map a plain object whose entries hold shapes.  The result is a
\* shape, or the Error the builder throws.
BadArguments == [thrown |-> "Error", message |-> "Bad arguments somehow"]
object(nameOrProps, maybeProperties) ==
  IF TypeOf(nameOrProps) = "string" /\ maybeProperties = Undefined
  THEN BadArguments
  ELSE LET named == TypeOf(nameOrProps) = "string"
           properties == IF named THEN maybeProperties.ents ELSE nameOrProps.ents
           typename == IF named THEN nameOrProps.text ELSE <<"Object">>
       IN [typename |-> typename, checkFn |-> "object", properties |-> properties]

\* ------------------------------------------------------- the state machine
\* A caller builds one shape by composing the builders, then hands values to
\* its checkFn.
\*   shape    the shape built so far, Nothing before the first builder call,
\*            or the Error object() threw
\*   input    the value last handed to shape.checkFn, Nothing before
\*   verdict  what that call did: "true", "false", "throw"; "none" before
\*   out      what that call wrote and invoked, in order
VARIABLES shape, input, verdict, out
vars == <<shape, input, verdict, out>>

Nothing == [t |-> "nothing"]
IsShape(s) == "checkFn" \in DOMAIN s
IsWrapper(s) == IsShape(s) /\ s.checkFn \in {"optional", "nullable", "array"}
Child(s) == IF s.checkFn = "array" THEN s.members ELSE s.inner

\* The shapes the builder actions compose: a leaf or an object shape without
\* properties, under at most two of optional, nullable and array; and on top
\* of that, one object shape whose properties are declared with such a shape.
Declarable(s) ==
  /\ IsShape(s)
  /\ verdict = "none"
  /\ ~(s.checkFn = "object" /\ s.properties # <<>>)

Wrappable(s) == Declarable(s) /\ ~(IsWrapper(s) /\ IsWrapper(Child(s)))

\* The property names of the model: a plain one, an integer one, and two
\* that every object inherits (a method, and the prototype link).
PropertyNames == {"a", "1", "toString", "__proto__"}
Name == [t |-> "string", text |-> <<"User">>]

\* Sequences of at most n distinct elements of S.
RECURSIVE Injections(_, _)
Injections(S, n) ==
  IF n = 0 THEN {<<>>}
  ELSE LET shorter == Injections(S, n - 1)
       IN shorter \cup {Append(q, x) : <<q, x>> \in
                          {<<q, x>> \in shorter \X S : Len(q) = n - 1 /\ x \notin Range(q)}}

\* A property map declaring the names in order, each with the same shape.
PropertyMap(names, s) == Obj([i \in 1..Len(names) |-> Entry(names[i], s)])

Init ==
  /\ shape = Nothing
  /\ input = Nothing
  /\ verdict = "none"
  /\ out = <<>>

CallString == shape = Nothing /\ shape' = string /\ UNCHANGED <<input, verdict, out>>

CallNumber == shape = Nothing /\ shape' = number /\ UNCHANGED <<input, verdict, out>>

CallBoolean == shape = Nothing /\ shape' = boolean /\ UNCHANGED <<input, verdict, out>>

CallOptional ==
  /\ Wrappable(shape)
  /\ shape' = optional(shape)
  /\ UNCHANGED <<input, verdict, out>>

CallNullable ==
  /\ Wrappable(shape)
  /\ shape' = nullable(shape)
  /\ UNCHANGED <<input, verdict, out>>

CallArray ==
  /\ Wrappable(shape)
  /\ shape' = array(shape)
  /\ UNCHANGED <<input, verdict, out>>

\* object(properties), object(name, properties) and object(name).
CallObject ==
  /\ \/ /\ shape = Nothing
        /\ \E args \in {<<Obj(<<>>), Undefined>>, <<Name, Obj(<<>>)>>, <<Name, Undefined>>} :
             shape' = object(args[1], args[2])
     \/ /\ Declarable(shape)
        /\ \E names \in Injections(PropertyNames, MaxProps) \ {<<>>} :
             \E named \in BOOLEAN :
               shape' = IF named THEN object(Name, PropertyMap(names, shape))
                        ELSE object(PropertyMap(names, shape), Undefined)
  /\ UNCHANGED <<input, verdict, out>>

\* The values handed to checkFn.
Atoms == {Undefined, Null, Str, Num, NaN, Infinity, Bool}
ToStringLess == Obj(<<Entry("toString", Num)>>)
Slots == {Str, Num, Null, Undefined, Hole, ToStringLess, Arr(<<Str>>)}
Fields == {Str, Num, ToStringLess}

RECURSIVE SeqsUpTo(_, _)
SeqsUpTo(S, n) ==
  IF n = 0 THEN {<<>>}
  ELSE LET shorter == SeqsUpTo(S, n - 1)
       IN shorter \cup {Append(q, x) : <<q, x>> \in {<<q, x>> \in shorter \X S : Len(q) = n - 1}}

Arrays == {Arr(slots) : slots \in SeqsUpTo(Slots, MaxLen)}

\* Plain objects with at most MaxLen own keys, inserted in one fixed order.
KeyOrder == <<"a", "1", "toString", "__proto__">>
ObjectOver(f) ==
  LET present(i) == f[KeyOrder[i]] # Nothing
      idx == SelectSeq([i \in 1..Len(KeyOrder) |-> i], present)
  IN Obj([j \in 1..Len(idx) |-> Entry(KeyOrder[idx[j]], f[KeyOrder[idx[j]]])])
Objects ==
  {ObjectOver(f) : f \in {g \in [PropertyNames -> Fields \cup {Nothing}] :
                            Cardinality({k \in PropertyNames : g[k] # Nothing}) <= MaxLen}}

\* What is below optional and nullable.
RECURSIVE Unwrapped(_)
Unwrapped(s) == IF s.checkFn \in {"optional", "nullable"} THEN Unwrapped(s.inner) ELSE s

Inputs(s) ==
  Atoms \cup {Arr(<<>>), Arr(<<Str>>), Obj(<<>>), Obj(<<Entry("a", Str)>>), ObjectPrototype, Fn}
    \cup (IF Unwrapped(s).checkFn = "array" THEN Arrays ELSE {})
    \cup (IF Unwrapped(s).checkFn = "object" THEN Objects ELSE {})

\* The library keeps no state between calls, so a run follows one call.
CallCheckFn ==
  /\ IsShape(shape)
  /\ verdict = "none"
  /\ \E v \in Inputs(shape) :
       LET res == checkFn(shape, v, 0)
       IN /\ input' = v
          /\ verdict' = res.r
          /\ out' = res.out
  /\ UNCHANGED shape

Next ==
  \/ CallString
  \/ CallNumber
  \/ CallBoolean
  \/ CallOptional
  \/ CallNullable
  \/ CallArray
  \/ CallObject
  \/ CallCheckFn

Spec == Init /\ [][Next]_vars

\* ------------------------------------------------------------------ claims
Checked == verdict # "none"
ObjectChecked == Checked /\ shape.checkFn = "object" /\ input.t = "object"
OwnKeys(v) == Keys(v.ents)
Declared(s) == Keys(s.properties)
PropertyShape(s, p) == s.properties[Lookup(s.properties, p)].val
\* The value of property p as the claims read it: the own value, or the
\* undefined sentinel when v has no key p.
OwnField(v, p) == IF p \in OwnKeys(v) THEN v.ents[Lookup(v.ents, p)].val ELSE Undefined
\* The element at index i as the claims read it: the undefined sentinel where
\* the array has nothing.
ElementAt(slots, i) == IF slots[i] = Hole THEN Undefined ELSE slots[i]

\* C1: a plain object with at least one key that the property map does not
\* declare fails the object check, whatever the key is.
C1_ClosedShape ==
  (ObjectChecked /\ \E k \in OwnKeys(input) : k \notin Declared(shape))
    => verdict = "false"

\* C2: for a plain object without undeclared keys, the object check is true
\* exactly when every declared property is present or optional and its shape
\* accepts the property's value (undefined when absent).
C2_PropertyRule ==
  (ObjectChecked /\ OwnKeys(input) \subseteq Declared(shape))
    => (verdict = "true" <=>
          \A p \in Declared(shape) :
            /\ p \in OwnKeys(input) \/ Truthy(PropertyShape(shape, p), "optional")
            /\ checkFn(PropertyShape(shape, p), OwnField(input, p), 1).r = "true")

\* C3: array(S).check(xs) is true exactly when xs is an array and S accepts
\* the element at every index of xs.
C3_ArrayHomomorphism ==
  (Checked /\ shape.checkFn = "array")
    => (verdict = "true" <=>
          /\ isArray(input)
          /\ \A i \in 1..Len(input.slots) :
               checkFn(shape.members, ElementAt(input.slots, i), 1).r = "true")

\* The kind of a value, as C4 lists them.
KindOf(v) ==
  CASE v.t = "string" -> "string"
    [] v.t = "number" /\ v \notin {NaN, Infinity} -> "number"
    [] v.t = "number" -> "not a finite number"
    [] v.t = "boolean" -> "boolean"
    [] v.t = "null" -> "null"
    [] v.t = "undefined" -> "undefined"
    [] v.t = "array" -> "array"
    [] v.t \in {"object", "Object.prototype"} -> "object"
    [] OTHER -> "function"
KindChecked(s) ==
  CASE s.checkFn = "isString" -> "string"
    [] s.checkFn = "isNumber" -> "number"
    [] s.checkFn = "isBoolean" -> "boolean"
    [] OTHER -> s.checkFn

\* C4: string(), number() and boolean() accept exactly the values of their
\* kind (number() only finite numbers) and never throw; and what an object
\* or array shape accepts is an object, respectively an array.
C4_ExactKind ==
  (Checked /\ shape.checkFn \notin {"optional", "nullable"})
    => /\ (shape.checkFn \in {"isString", "isNumber", "isBoolean"})
            => /\ verdict \in {"true", "false"}
               /\ (verdict = "true") <=> (KindOf(input) = KindChecked(shape))
       /\ (verdict = "true") => (KindOf(input) = KindChecked(shape))

C4_Witness == shape = number /\ input = NaN /\ verdict = "false"

C6_NullableNotOptional ==
  /\ (Checked /\ shape.checkFn = "nullable")
       => IF input = Null THEN verdict = "true"
          ELSE verdict = checkFn(shape.inner, input, 0).r
  /\ (Checked /\ shape = array(nullable(string)) /\ isArray(input))
       => /\ Range(input.slots) \subseteq {Str, Null} => verdict = "true"
          /\ Num \in Range(input.slots) => verdict # "true"

C6_Witness ==
  /\ shape = array(nullable(string))
  /\ input = Arr(<<Null, Num>>)
  /\ verdict = "false"

\* C7: a shape's optional flag is set exactly when optional() built it;
\* nullable(optional(S)) and array(optional(S)) are not optional, so an object
\* check rejects an input in which a property declared with one is absent.
WrapsOptional(s) == s.checkFn \in {"nullable", "array"} /\ Child(s).checkFn = "optional"
C7_OptionalFlag ==
  /\ IsShape(shape) => (Truthy(shape, "optional") <=> shape.checkFn = "optional")
  /\ (ObjectChecked /\ \E p \in Declared(shape) :
                         p \notin OwnKeys(input) /\ WrapsOptional(PropertyShape(shape, p)))
       => verdict # "true"

\* C8: object() throws exactly when it gets a name and no property map, the
\* shape it returns is named "Object" or by that name, and no check throws.
C8_OnlyConstructionThrows ==
  /\ \A nameOrProps \in {Name, Obj(<<>>)} : \A maybeProperties \in {Undefined, Obj(<<>>)} :
       /\ object(nameOrProps, maybeProperties) = BadArguments
            <=> (nameOrProps = Name /\ maybeProperties = Undefined)
       /\ object(nameOrProps, maybeProperties) # BadArguments
            => object(nameOrProps, maybeProperties).typename
                 = IF nameOrProps = Name THEN Name.text ELSE <<"Object">>
  /\ verdict # "throw"

\* What the checked shape itself (not a nested one) wrote and invoked.
IsOwnWarn(ev) == ev.e = "warn" /\ ev.d = 0
IsOwnCall(ev) == ev.e = "call" /\ ev.d = 0
OwnWarns == SelectSeq(out, IsOwnWarn)
OwnCalls == SelectSeq(out, IsOwnCall)
Least(S) == CHOOSE i \in S : \A j \in S : i <= j
ArrayChecked == Checked /\ shape.checkFn = "array" /\ isArray(input)
\* The indices of the array that hold an element, in order.
Elements(slots) ==
  LET held(i) == slots[i] # Hole IN SelectSeq([i \in 1..Len(slots) |-> i], held)
UpTo(q, n) == LET low(i) == i <= n IN SelectSeq(q, low)
ElementVerdict(i) == checkFn(shape.members, input.slots[i], 1).r
FailingElements == {i \in Range(Elements(input.slots)) : ElementVerdict(i) # "true"}
ElementCalls == [i \in 1..Len(OwnCalls) |-> OwnCalls[i].index]

\* C9 as claimed: an array check emits one diagnostic of its own for each
\* element that fails S.check, k diagnostics for k failing elements.  Stated
\* for the calls that return; those that throw are C8's.
C9_OnePerFailingElement ==
  (ArrayChecked /\ verdict # "throw") => Len(OwnWarns) = Cardinality(FailingElements)

\* C9 as amended: an array check visits the elements in index order, stops at
\* the first one S.check does not accept and checks none after it; it emits
\* at most one diagnostic of its own: exactly one, naming that element's
\* value, its type and S's name, when it returns false, and none otherwise.
C9_FirstFailingElementOnly ==
  ArrayChecked =>
    IF FailingElements = {}
    THEN /\ verdict = "true"
         /\ OwnWarns = <<>>
         /\ ElementCalls = Elements(input.slots)
    ELSE LET f == Least(FailingElements)
             entry == input.slots[f]
         IN /\ ElementCalls = UpTo(Elements(input.slots), f)
            /\ IF ElementVerdict(f) = "false" /\ ToString(entry).ok
               THEN /\ verdict = "false"
                    /\ OwnWarns = <<WarnElement(0, shape.typename, entry,
                                                shape.members.typename)>>
               ELSE /\ verdict = "throw"
                    /\ OwnWarns = <<>>

C9_Witness ==
  /\ shape = array(string)
  /\ input = Arr(<<Num, Null>>)
  /\ verdict = "false"
  /\ Len(OwnWarns) = 1

ObjectCheckedClosed == ObjectChecked /\ OwnKeys(input) \subseteq Declared(shape)
DeclarationOrder == [i \in 1..Len(shape.properties) |-> shape.properties[i].key]
PropertyCalls == [i \in 1..Len(OwnCalls) |-> OwnCalls[i].property]
Position(q, x) == CHOOSE i \in 1..Len(q) : q[i] = x
\* Missing and required, or rejected, as the claim reads an input.
Violates(p) ==
  \/ p \notin OwnKeys(input) /\ ~Truthy(PropertyShape(shape, p), "optional")
  \/ checkFn(PropertyShape(shape, p), OwnField(input, p), 1).r # "true"

\* C10 as claimed: the declared properties are visited in declaration order;
\* at the first one that is missing and required or whose check fails, the
\* object shape emits exactly one diagnostic of its own, naming it, returns
\* false, and invokes the check of no later property.  Stated for the calls
\* that return and the property maps that declare no inherited name; the
\* others are C8's and C1's.
C10_DeclarationOrder ==
  (ObjectCheckedClosed /\ verdict # "throw"
     /\ Declared(shape) \cap ObjectPrototypeNames = {}) =>
    LET bad == {i \in 1..Len(DeclarationOrder) : Violates(DeclarationOrder[i])}
    IN IF bad = {} THEN PropertyCalls = DeclarationOrder
       ELSE LET f == Least(bad)
            IN /\ verdict = "false"
               /\ Len(OwnWarns) = 1
               /\ OwnWarns[1].property = DeclarationOrder[f]
               /\ PropertyCalls \in {SubSeq(DeclarationOrder, 1, f - 1),
                                     SubSeq(DeclarationOrder, 1, f)}

\* The order for-in gives the declared names: integer keys first, ascending,
\* then the others as declared.
Precedes(x, y) ==
  IF x \in IntegerKeys
  THEN y \in IntegerKeys => IntegerValue(x) < IntegerValue(y)
  ELSE y \notin IntegerKeys /\ Position(DeclarationOrder, x) < Position(DeclarationOrder, y)
VisitOrder ==
  CHOOSE q \in Injections(Declared(shape), Len(shape.properties)) :
    /\ Len(q) = Len(shape.properties)
    /\ \A i, j \in 1..Len(q) : i < j => Precedes(q[i], q[j])
\* Missing and required, or rejected, as the code reads an input: presence
\* by `in` and the value by input[property], inherited names included.
Absent(p) == ~In(p, input) /\ ~Truthy(PropertyShape(shape, p), "optional")
Fails(p) ==
  Absent(p) \/ checkFn(PropertyShape(shape, p), Get(input, p), 1).r # "true"

\* C10 as amended: the declared properties are visited in for-in order; at
\* the first one that is absent (by `in`) and required, or whose check of
\* input[property] does not return true, the object shape stops: it invokes
\* the check of no later property and emits at most one diagnostic of its
\* own, exactly one naming that property when it returns false, and none
\* when the call throws.
C10_ForInOrder ==
  ObjectCheckedClosed =>
    LET bad == {i \in 1..Len(VisitOrder) : Fails(VisitOrder[i])}
    IN IF bad = {}
       THEN /\ verdict = "true"
            /\ OwnWarns = <<>>
            /\ PropertyCalls = VisitOrder
       ELSE LET f == Least(bad)
                p == VisitOrder[f]
            IN /\ PropertyCalls = SubSeq(VisitOrder, 1, IF Absent(p) THEN f - 1 ELSE f)
               /\ verdict \in {"false", "throw"}
               /\ verdict = "false" => Len(OwnWarns) = 1 /\ OwnWarns[1].property = p
               /\ verdict = "throw" => OwnWarns = <<>>

C10_Witness ==
  /\ ObjectCheckedClosed
  /\ DeclarationOrder = <<"a", "1">>
  /\ PropertyShape(shape, "a") = string
  /\ input = Obj(<<Entry("a", Num), Entry("1", Num)>>)
  /\ verdict = "false"
  /\ PropertyCalls = <<"1">>
  /\ OwnWarns[1].property = "1"

\* What a check decides when its console.warn statements are left out: the
\* same tests in the same order, and nothing built or written on failure.
RECURSIVE Decides(_, _)
Decides(s, v) ==
  CASE s.checkFn = "isString" -> isString(v)
    [] s.checkFn = "isNumber" -> isNumber(v)
    [] s.checkFn = "isBoolean" -> isBoolean(v)
    [] s.checkFn = "optional" -> isUndefined(v) \/ Decides(s.inner, v)
    [] s.checkFn = "nullable" -> isNull(v) \/ Decides(s.inner, v)
    [] s.checkFn = "array" ->
         /\ isArray(v)
         /\ \A i \in 1..Len(v.slots) : v.slots[i] # Hole => Decides(s.members, v.slots[i])
    [] s.checkFn = "object" ->
         /\ isObject(v)
         /\ \A k \in Range(ForInValue(v)) : HasProperty(s.properties, k)
         /\ \A p \in Declared(s) :
              /\ In(p, v) \/ Truthy(PropertyShape(s, p), "optional")
              /\ Decides(PropertyShape(s, p), Get(v, p))

IsWarn(ev) == ev.e = "warn"
Warns == SelectSeq(out, IsWarn)

\* C11: a check that returns true wrote no diagnostic line, its own or a
\* nested one; and the diagnostics never affect the verdict: the call
\* returns the boolean it decides with the diagnostics left out.
C11_DiagnosticsNeverAffectVerdict ==
  Checked =>
    /\ verdict = "true" => Warns = <<>>
    /\ verdict = IF Decides(shape, input) THEN "true" ELSE "false"
====
